---- MODULE Spec2Model ----
(***************************************************************************)
(* ComponentHost (src/src/lib/index.tsx, lines 189-379): a registry of     *)
(* initial state, reducers, effectors, enhancers, middleware and page      *)
(* parts, a lazily created store, and the section resolver getSection.     *)
(*                                                                         *)
(* Conventions.  A JavaScript value that may be null/undefined is a        *)
(* sequence of length 0 (Null) or 1 (Some(x)).  A route path is the        *)
(* sequence of its segments: "/" is <<>>, "/a" is <<"a">>, "/a/b" is       *)
(* <<"a", "b">>.  The variable `call` records the last call made on the    *)
(* host: its name, its arguments as written by the caller (an omitted      *)
(* argument is Null) and the value it returned.                            *)
(***************************************************************************)
EXTENDS Integers, Sequences, FiniteSets, TLC

VARIABLES initialState, reducers, effectors, enhancers, middleware, parts,
          _store, dispatched, dom, call

hostFields == <<initialState, reducers, effectors, enhancers, middleware, parts, _store>>
vars == <<initialState, reducers, effectors, enhancers, middleware, parts,
          _store, dispatched, dom, call>>

---------------------------------------------------------------------------
(* Bounds of the model. *)

\* SpecRegistry: the longest parts sequence built.
MaxParts == 3
\* Spec: the number of registrations (add* calls, over all collections).
MaxRegistrations == 2

---------------------------------------------------------------------------
(* Values. *)

Null == <<>>
Some(x) == <<x>>
Undefined == "undefined"

\* The host instance: every chainable method returns `this`.
Host == [type |-> "ComponentHost"]

\* Section names used in registrations, and the names getSection is asked for.
Sections == {"main", "nav"}
SectionNames == Sections \cup {"missing"}
Components == {"V1", "V2"}
\* Route patterns "/" and "/a".
Paths == {<<>>, <<"a">>}
\* Navigation paths "/", "/a", "/b", "/a/a", "/a/b", "/b/a".
Locations == {<<>>, <<"a">>, <<"b">>, <<"a", "a">>, <<"a", "b">>, <<"b", "a">>}

Keys == {"users"}
Values == {"v1", "v2"}
ReducerIds == {"r1", "r2"}
EffectorIds == {"e1"}
EnhancerIds == {"n1"}
MiddlewareIds == {"m1"}
Histories == {"history"}
\* Elements of the document that render can mount into.
ElementIds == {"root"}

\* Default parameter values (an omitted or undefined argument takes them).
DefaultSection == "main"
DefaultExact == TRUE
DefaultExclusive == TRUE
DefaultFnName == "initReduxComponent"
DefaultPage == "DummyComponent"
DefaultRootId == "root"

OrDefault(arg, default) == IF arg = Null THEN default ELSE arg[1]

---------------------------------------------------------------------------
(* constructor *)

Init ==
    /\ initialState = [k \in Keys |-> Undefined]
    /\ reducers = <<>>
    /\ effectors = <<>>
    /\ enhancers = <<>>
    /\ middleware = <<>>
    /\ parts = <<>>
    /\ _store = Null
    /\ dispatched = {}
    /\ dom = [e \in ElementIds |-> Null]
    /\ call = [op |-> "constructor", args |-> [none |-> TRUE], value |-> Some(Host)]

---------------------------------------------------------------------------
(* Registration methods. *)

SetInitialState(key, value) ==
    /\ initialState' = [initialState EXCEPT ![key] = value]
    /\ call' = [op |-> "setInitialState", args |-> [key |-> key, value |-> value],
                value |-> Some(Host)]
    /\ UNCHANGED <<reducers, effectors, enhancers, middleware, parts, _store, dispatched, dom>>

AddReducer(reducer) ==
    /\ reducers' = Append(reducers, reducer)
    /\ call' = [op |-> "addReducer", args |-> [reducer |-> reducer], value |-> Some(Host)]
    /\ UNCHANGED <<initialState, effectors, enhancers, middleware, parts, _store, dispatched, dom>>

AddEffector(effector) ==
    /\ effectors' = Append(effectors, effector)
    /\ call' = [op |-> "addEffector", args |-> [effector |-> effector], value |-> Some(Host)]
    /\ UNCHANGED <<initialState, reducers, enhancers, middleware, parts, _store, dispatched, dom>>

AddEnhancer(enhancer) ==
    /\ enhancers' = Append(enhancers, enhancer)
    /\ call' = [op |-> "addEnhancer", args |-> [enhancer |-> enhancer], value |-> Some(Host)]
    /\ UNCHANGED <<initialState, reducers, effectors, middleware, parts, _store, dispatched, dom>>

AddMiddleware(mw) ==
    /\ middleware' = Append(middleware, mw)
    /\ call' = [op |-> "addMiddleware", args |-> [middleware |-> mw], value |-> Some(Host)]
    /\ UNCHANGED <<initialState, reducers, effectors, enhancers, parts, _store, dispatched, dom>>

\* Mutant of pushPart: the part is put at the front (unshift).
unshiftPart(ps, path, Component, section, exact) ==
    <<[path |-> path, Component |-> Component, section |-> section, exact |-> exact]>> \o ps

\* this.parts.push({path, Component, section, exact})
pushPart(ps, path, Component, section, exact) ==
    Append(ps, [path |-> path, Component |-> Component, section |-> section, exact |-> exact])

\* Mutant of AddPart: the exact argument is dropped, every part is exact.
AddPartAlwaysExact(path, Component, sectionArg, exactArg) ==
    /\ parts' = pushPart(parts, path, Component,
                         OrDefault(sectionArg, DefaultSection), DefaultExact)
    /\ call' = [op |-> "addPart",
                args |-> [path |-> path, Component |-> Component,
                          section |-> sectionArg, exact |-> exactArg],
                value |-> Some(Host)]
    /\ UNCHANGED <<initialState, reducers, effectors, enhancers, middleware, _store, dispatched, dom>>

AddPart(path, Component, sectionArg, exactArg) ==
    /\ parts' = pushPart(parts, path, Component,
                         OrDefault(sectionArg, DefaultSection), OrDefault(exactArg, DefaultExact))
    /\ call' = [op |-> "addPart",
                args |-> [path |-> path, Component |-> Component,
                          section |-> sectionArg, exact |-> exactArg],
                value |-> Some(Host)]
    /\ UNCHANGED <<initialState, reducers, effectors, enhancers, middleware, _store, dispatched, dom>>

---------------------------------------------------------------------------
(* getSection *)

\* parts.map((part, i) => <Route exact path component key={i} />)
routeOf(part, i) ==
    [type |-> "Route", exact |-> part.exact, path |-> part.path,
     component |-> part.Component, key |-> i]

\* Mutants of getSection: children built in reverse; no filter on the section;
\* the container fixed to one kind; the filter's comparison negated.
getSectionReversed(name, exclusive) ==
    LET filtered == SelectSeq(parts, LAMBDA part : part.section = name)
        n == Len(filtered)
    IN  [type |-> IF exclusive THEN "Switch" ELSE "div",
         children |-> [i \in 1..n |-> routeOf(filtered[n + 1 - i], i - 1)]]

getSectionUnfiltered(name, exclusive) ==
    [type |-> IF exclusive THEN "Switch" ELSE "div",
     children |-> [i \in 1..Len(parts) |-> routeOf(parts[i], i - 1)]]

getSectionAlwaysDiv(name, exclusive) ==
    LET filtered == SelectSeq(parts, LAMBDA part : part.section = name)
    IN  [type |-> "div",
         children |-> [i \in 1..Len(filtered) |-> routeOf(filtered[i], i - 1)]]

getSectionAlwaysSwitch(name, exclusive) ==
    LET filtered == SelectSeq(parts, LAMBDA part : part.section = name)
    IN  [type |-> "Switch",
         children |-> [i \in 1..Len(filtered) |-> routeOf(filtered[i], i - 1)]]

getSectionNegated(name, exclusive) ==
    LET filtered == SelectSeq(parts, LAMBDA part : part.section # name)
    IN  [type |-> IF exclusive THEN "Switch" ELSE "div",
         children |-> [i \in 1..Len(filtered) |-> routeOf(filtered[i], i - 1)]]

getSection(name, exclusive) ==
    LET Section == IF exclusive THEN "Switch" ELSE "div"
        filtered == SelectSeq(parts, LAMBDA part : part.section = name)
    IN  [type |-> Section,
         children |-> [i \in 1..Len(filtered) |-> routeOf(filtered[i], i - 1)]]

\* Mutant of GetSection: the filter is applied to this.parts in place.
GetSectionInPlace(name, exclusiveArg) ==
    /\ call' = [op |-> "getSection", args |-> [name |-> name, exclusive |-> exclusiveArg],
                value |-> Some(getSection(name, OrDefault(exclusiveArg, DefaultExclusive)))]
    /\ parts' = SelectSeq(parts, LAMBDA part : part.section = name)
    /\ UNCHANGED <<initialState, reducers, effectors, enhancers, middleware, _store, dispatched, dom>>

GetSection(name, exclusiveArg) ==
    /\ call' = [op |-> "getSection", args |-> [name |-> name, exclusive |-> exclusiveArg],
                value |-> Some(getSection(name, OrDefault(exclusiveArg, DefaultExclusive)))]
    /\ UNCHANGED <<initialState, reducers, effectors, enhancers, middleware, parts,
                   _store, dispatched, dom>>

---------------------------------------------------------------------------
(* The router (react-router-dom): Route's guard, Switch and a plain div. *)

IsPrefixOf(s, t) == Len(s) <= Len(t) /\ SubSeq(t, 1, Len(s)) = s

\* Route's guard: a non-exact pattern matches the paths it is a prefix of
\* (by whole segments), an exact one only itself.
matchPath(location, path, exact) ==
    /\ IsPrefixOf(path, location)
    /\ exact => path = location

\* What a Route shows at a location: its component, or nothing.
renderRoute(route, location) ==
    IF matchPath(location, route.path, route.exact)
    THEN <<[key |-> route.key, component |-> route.component]>>
    ELSE <<>>

RECURSIVE renderAll(_, _)
renderAll(children, location) ==
    IF children = <<>> THEN <<>>
    ELSE renderRoute(Head(children), location) \o renderAll(Tail(children), location)

RECURSIVE renderFirst(_, _)
renderFirst(children, location) ==
    IF children = <<>> THEN <<>>
    ELSE IF matchPath(location, Head(children).path, Head(children).exact)
         THEN renderRoute(Head(children), location)
         ELSE renderFirst(Tail(children), location)

\* The components an element returned by getSection shows at a location, in order:
\* a Switch shows its first child whose guard passes, a div every child whose
\* guard passes.
renderElement(element, location) ==
    IF element.type = "Switch"
    THEN renderFirst(element.children, location)
    ELSE renderAll(element.children, location)

---------------------------------------------------------------------------
(* createStore, get store *)

\* window['__REDUX_DEVTOOLS_EXTENSION__'] is read when the store is created:
\* reduxTools tells whether the page has the extension.
createStore(reduxTools) ==
    LET reducer == [fn |-> "SideEffects.combineReducers", args |-> reducers]
        enhancerList ==
            <<[fn |-> "SideEffects.installSideEffects", args |-> effectors]>>
            \o [i \in 1..Len(enhancers) |-> [fn |-> "enhancer", args |-> <<enhancers[i]>>]]
            \o (IF Len(middleware) # 0
                THEN <<[fn |-> "Redux.applyMiddleware", args |-> middleware]>> ELSE <<>>)
            \o (IF reduxTools THEN <<[fn |-> "reduxTools", args |-> <<>>]>> ELSE <<>>)
    IN  \* Redux.createStore(reducer, this.initialState, enhancer): the reducer and the
        \* enhancer are built from copies (spread) of the host's arrays, the preloaded
        \* state is the host's initialState object itself.
        [reducer |-> reducer,
         preloadedState |-> [ref |-> "this.initialState"],
         enhancer |-> [fn |-> "Redux.compose", args |-> enhancerList]]

\* Mutant of store: no null check, a store is created at every access.
storeAlwaysCreated(reduxTools) == Some(createStore(reduxTools))

\* The value of this._store after an evaluation of the getter `store`.
store(reduxTools) ==
    IF _store = Null THEN Some(createStore(reduxTools)) ELSE _store

GetStore(reduxTools) ==
    /\ _store' = store(reduxTools)
    /\ call' = [op |-> "store", args |-> [none |-> TRUE], value |-> _store']
    /\ UNCHANGED <<initialState, reducers, effectors, enhancers, middleware, parts, dispatched, dom>>

---------------------------------------------------------------------------
(* render *)

Render(history, PageArg, rootIdArg, reduxTools) ==
    LET Page == OrDefault(PageArg, DefaultPage)
        rootId == OrDefault(rootIdArg, DefaultRootId)
        content == [type |-> "Provider", store |-> store(reduxTools)[1],
                    history |-> history, Page |-> Page,
                    children |-> getSection("main", DefaultExclusive)]
    IN  /\ _store' = store(reduxTools)
        /\ dispatched' = dispatched \cup {"app/RENDER"}
        /\ dom' = [dom EXCEPT ![rootId] = Some(content)]
        /\ call' = [op |-> "render",
                    args |-> [history |-> history, Page |-> PageArg, rootId |-> rootIdArg],
                    value |-> Null]
        /\ UNCHANGED <<initialState, reducers, effectors, enhancers, middleware, parts>>

---------------------------------------------------------------------------
(* loadComponents *)

\* The names a module may export an initializer under.
ExportNames == {"initReduxComponent", "setup"}
InitFns == {"f1", "f2"}

\* What an initializer does with the host it is given (README.md, lines 31-38):
\* host.addPart(path, Component).
InitFnPath(f) == IF f = "f1" THEN <<"a">> ELSE <<>>
InitFnComponent(f) == IF f = "f1" THEN "V1" ELSE "V2"

ModuleA == [initReduxComponent |-> Some("f1"), setup |-> Null]
ModuleB == [initReduxComponent |-> Null, setup |-> Some("f2")]
ModuleC == [initReduxComponent |-> Some("f2"), setup |-> Some("f1")]
ModuleD == [initReduxComponent |-> Null, setup |-> Null]
\* requireContext.keys().map((key) => requireContext(key)): the modules, in key order.
RequireContexts == {<<ModuleA, ModuleD>>, <<ModuleB, ModuleC>>}

\* .map((key) => requireContext(key).initReduxComponent).filter((init) => init != null)
initFnsOf(requireContext, fnName) ==
    LET exported == [i \in 1..Len(requireContext) |-> requireContext[i].initReduxComponent]
        found == SelectSeq(exported, LAMBDA init : init # Null)
    IN  [i \in 1..Len(found) |-> found[i][1]]

\* wait.run(initFns, this): every function is called with the host; each call is
\* host.addPart(path, Component).
RECURSIVE waitRun(_, _)
waitRun(fns, ps) ==
    IF fns = <<>> THEN ps
    ELSE waitRun(Tail(fns),
                 pushPart(ps, InitFnPath(Head(fns)), InitFnComponent(Head(fns)),
                          DefaultSection, DefaultExact))

LoadComponents(requireContext, fnNameArg) ==
    LET fnName == OrDefault(fnNameArg, DefaultFnName)
        initFns == initFnsOf(requireContext, fnName)
    IN  /\ parts' = waitRun(initFns, parts)
        /\ call' = [op |-> "loadComponents",
                    args |-> [requireContext |-> requireContext, fnName |-> fnNameArg],
                    value |-> Some([type |-> "WaitForFunction.run", fns |-> initFns,
                                    arg |-> Host])]
        /\ UNCHANGED <<initialState, reducers, effectors, enhancers, middleware, _store, dispatched, dom>>

---------------------------------------------------------------------------
(* Specifications. *)

Registrations == Len(reducers) + Len(effectors) + Len(enhancers) + Len(middleware) + Len(parts)

OptionOf(S) == {Null} \cup {Some(x) : x \in S}

NextRegistry ==
    \/ \E path \in Paths, Component \in Components,
          sectionArg \in OptionOf(Sections), exactArg \in OptionOf(BOOLEAN) :
          /\ Len(parts) < MaxParts
          /\ AddPart(path, Component, sectionArg, exactArg)
    \/ \E name \in SectionNames, exclusiveArg \in OptionOf(BOOLEAN) :
          GetSection(name, exclusiveArg)

SpecRegistry == Init /\ [][NextRegistry]_vars

Next ==
    \/ \E key \in Keys, value \in Values : SetInitialState(key, value)
    \/ \E reducer \in ReducerIds : Registrations < MaxRegistrations /\ AddReducer(reducer)
    \/ \E effector \in EffectorIds : Registrations < MaxRegistrations /\ AddEffector(effector)
    \/ \E enhancer \in EnhancerIds : Registrations < MaxRegistrations /\ AddEnhancer(enhancer)
    \/ \E mw \in MiddlewareIds : Registrations < MaxRegistrations /\ AddMiddleware(mw)
    \* addPart(path, Component) and addPart(path, Component, 'nav')
    \/ \E path \in Paths, Component \in Components,
          sectionArg \in OptionOf({"nav"}), exactArg \in {Null} :
          /\ Registrations < MaxRegistrations
          /\ AddPart(path, Component, sectionArg, exactArg)
    \/ \E requireContext \in RequireContexts, fnNameArg \in OptionOf(ExportNames) :
          /\ Registrations + Len(initFnsOf(requireContext, OrDefault(fnNameArg, DefaultFnName)))
                <= MaxRegistrations
          /\ LoadComponents(requireContext, fnNameArg)
    \/ \E reduxTools \in BOOLEAN : GetStore(reduxTools)
    \/ \E name \in SectionNames, exclusiveArg \in OptionOf(BOOLEAN) :
          GetSection(name, exclusiveArg)
    \/ \E history \in Histories, PageArg \in OptionOf({"Page"}),
          rootIdArg \in OptionOf(ElementIds), reduxTools \in BOOLEAN :
          Render(history, PageArg, rootIdArg, reduxTools)

Spec == Init /\ [][Next]_vars

---------------------------------------------------------------------------
(* Properties.  They speak of the last call (`call`) and of the parts the   *)
(* host holds, by position: the part at index i of `parts` is the i-th     *)
(* registration.                                                           *)

IsGetSection == call.op = "getSection"
AskedName == call.args.name
AskedExclusive == OrDefault(call.args.exclusive, DefaultExclusive)
Returned == call.value[1]

\* The registrations under a section name, and the rank of one among them.
SectionIndices(name) == {i \in DOMAIN parts : parts[i].section = name}
RankIn(S, i) == Cardinality({j \in S : j < i})
\* The Route that offers registration i of its section.
RouteFor(name, i) ==
    [type |-> "Route", exact |-> parts[i].exact, path |-> parts[i].path,
     component |-> parts[i].Component, key |-> RankIn(SectionIndices(name), i)]
\* The registrations under a name whose guard passes at a location.
MatchingIndices(name, location) ==
    {i \in SectionIndices(name) : matchPath(location, parts[i].path, parts[i].exact)}
Shown(name, i) ==
    [key |-> RankIn(SectionIndices(name), i), component |-> parts[i].Component]
Min(S) == CHOOSE i \in S : \A j \in S : i <= j

P1 == [path |-> <<"a">>, Component |-> "V1", section |-> "main", exact |-> TRUE]
P2 == [path |-> <<>>, Component |-> "V2", section |-> "main", exact |-> FALSE]

\* C1: getSection(name, false) offers exactly the parts registered under `name`
\* so far, one Route each, in the order of registration.
C1_OrderPreserved ==
    (IsGetSection /\ call.args.exclusive = Some(FALSE)) =>
        /\ Returned.type = "div"
        /\ Len(Returned.children) = Cardinality(SectionIndices(AskedName))
        /\ \A i \in SectionIndices(AskedName) :
              Returned.children[RankIn(SectionIndices(AskedName), i) + 1] = RouteFor(AskedName, i)

C1_Witness ==
    /\ IsGetSection /\ call.args.exclusive = Some(FALSE)
    /\ Len(parts) = 3
    /\ Len(Returned.children) = 2
    /\ parts[2].section # AskedName
    /\ Returned.children[1].component # Returned.children[2].component

\* C2: whatever the mode, every Route of getSection(name, exclusive) comes from a
\* part registered under `name`, and there are no more Routes than such parts.
C2_OnlyOwnSection ==
    IsGetSection =>
        /\ Len(Returned.children) <= Cardinality(SectionIndices(AskedName))
        /\ \A k \in DOMAIN Returned.children :
              \E i \in SectionIndices(AskedName) :
                  /\ Returned.children[k].path = parts[i].path
                  /\ Returned.children[k].component = parts[i].Component
                  /\ Returned.children[k].exact = parts[i].exact

C2_Witness ==
    /\ IsGetSection
    /\ Returned.children # <<>>
    /\ \E i \in DOMAIN parts : parts[i].section # AskedName
    /\ \E i \in DOMAIN parts :
          /\ parts[i].section # AskedName
          /\ \A k \in DOMAIN Returned.children :
                Returned.children[k].component # parts[i].Component

\* C3: in exclusive mode, at every location, the section shows nothing when no
\* part of it matches, and otherwise exactly the first registered part that matches.
C3_ExclusiveFirstMatch ==
    (IsGetSection /\ AskedExclusive) =>
        \A location \in Locations :
            LET M == MatchingIndices(AskedName, location)
                shown == renderElement(Returned, location)
            IN  IF M = {} THEN shown = <<>>
                ELSE shown = <<Shown(AskedName, Min(M))>>

\* P1 ('/a', exact) then P2 ('/', not exact) in 'main', a duplicate of P1 after them:
\* '/a' shows P1 alone, '/b' shows P2 alone.
C3_Witness ==
    /\ IsGetSection /\ AskedExclusive /\ AskedName = "main"
    /\ parts = <<P1, P2, P1>>
    /\ renderElement(Returned, <<"a">>) = <<[key |-> 0, component |-> "V1"]>>
    /\ renderElement(Returned, <<"b">>) = <<[key |-> 1, component |-> "V2"]>>

\* C4: in non-exclusive mode, at every location, the section shows exactly the
\* parts of it that match, in the order of registration.
C4_NonExclusiveAllMatch ==
    (IsGetSection /\ ~AskedExclusive) =>
        \A location \in Locations :
            LET M == MatchingIndices(AskedName, location)
                shown == renderElement(Returned, location)
            IN  /\ Len(shown) = Cardinality(M)
                /\ \A i \in M : shown[RankIn(M, i) + 1] = Shown(AskedName, i)

C4_Witness ==
    /\ IsGetSection /\ ~AskedExclusive /\ AskedName = "main"
    /\ parts = <<P1, P2>>
    /\ renderElement(Returned, <<"a">>)
          = <<[key |-> 0, component |-> "V1"], [key |-> 1, component |-> "V2"]>>
    /\ renderElement(Returned, <<"b">>) = <<[key |-> 1, component |-> "V2"]>>
    /\ renderElement(Returned, <<"a", "b">>) = <<[key |-> 1, component |-> "V2"]>>

\* C5: getSection on a name with no registered part returns a container with
\* no child, which shows nothing at any location.
C5_EmptySection ==
    (IsGetSection /\ SectionIndices(AskedName) = {}) =>
        /\ call.value # Null
        /\ Returned.type = (IF AskedExclusive THEN "Switch" ELSE "div")
        /\ Returned.children = <<>>
        /\ \A location \in Locations : renderElement(Returned, location) = <<>>

C5_Witness ==
    /\ IsGetSection /\ AskedName = "missing"
    /\ Len(parts) = 2
    /\ call.value = Some([type |-> "Switch", children |-> <<>>])

\* The element the host's parts determine for a name and a mode.
ElementFor(name, exclusive) ==
    [type |-> IF exclusive THEN "Switch" ELSE "div",
     children |-> [k \in 1..Cardinality(SectionIndices(name)) |->
                      RouteFor(name, CHOOSE i \in SectionIndices(name) :
                                         RankIn(SectionIndices(name), i) = k - 1)]]

\* C6: a getSection call changes no field of the host, and what it returns is
\* determined by its arguments and the parts registered: two calls with the same
\* arguments and the same parts, consecutive or not, return equal values.
C6_GetSectionPure ==
    /\ [][call'.op = "getSection" =>
             /\ UNCHANGED hostFields
             /\ UNCHANGED <<dispatched, dom>>
             /\ (IsGetSection /\ call'.args = call.args) => call'.value = call.value]_vars
    /\ [](IsGetSection => call.value = Some(ElementFor(AskedName, AskedExclusive)))

C6_Witness ==
    /\ IsGetSection
    /\ Returned.children # <<>>
    /\ Len(parts) > Len(Returned.children)
    /\ _store # Null

\* C7: addPart appends the one entry {path, Component, section, exact} (section
\* 'main' and exact true when omitted) at the end of parts, returns the host, and
\* the new part is the last Route of its section.
C7_AddPartAppends ==
    /\ [][call'.op = "addPart" =>
             LET a == call'.args
                 entry == [path |-> a.path, Component |-> a.Component,
                           section |-> IF a.section = Null THEN "main" ELSE a.section[1],
                           exact |-> IF a.exact = Null THEN TRUE ELSE a.exact[1]]
             IN  /\ parts' = parts \o <<entry>>
                 /\ call'.value = Some(Host)]_vars
    /\ [](call.op = "addPart" =>
             LET added == parts[Len(parts)]
                 offered == getSection(added.section, FALSE).children
             IN  /\ offered # <<>>
                 /\ offered[Len(offered)].path = call.args.path
                 /\ offered[Len(offered)].component = call.args.Component
                 /\ offered[Len(offered)].exact = added.exact)

C7_Witness ==
    /\ call.op = "addPart"
    /\ call.args.section = Null /\ call.args.exact = Some(FALSE)
    /\ Len(parts) = 2
    /\ parts[1] # parts[2]
    /\ parts[2].section = "main" /\ ~parts[2].exact

\* The functions a require context exports under a name, in key order.
RECURSIVE exportedUnder(_, _)
exportedUnder(requireContext, fnName) ==
    IF requireContext = <<>> THEN <<>>
    ELSE (IF Head(requireContext)[fnName] = Null THEN <<>>
          ELSE <<Head(requireContext)[fnName][1]>>)
         \o exportedUnder(Tail(requireContext), fnName)

\* C8: loadComponents(requireContext, fnName) runs, with the host, the functions
\* the modules export under fnName ('initReduxComponent' when omitted), and only those.
C8_RunsFunctionsNamed ==
    call.op = "loadComponents" =>
        /\ call.value[1].arg = Host
        /\ call.value[1].fns
              = exportedUnder(call.args.requireContext, OrDefault(call.args.fnName, DefaultFnName))

\* C9: every step leaves the earlier parts sequence a prefix of the later one.
C9_PartsOnlyGrow == [][IsPrefixOf(parts, parts')]_vars

C9_Witness ==
    /\ Len(parts) = 2
    /\ parts[1] # parts[2]
    /\ _store # Null
    /\ dom["root"] # Null
    /\ IsGetSection

\* What a created store was made from: the arguments of its reducer and of its
\* enhancers.
StoreReducers == _store[1].reducer.args
StoreEnhancerList == _store[1].enhancer.args
StoreHas(fn, args) ==
    \E k \in DOMAIN StoreEnhancerList :
        StoreEnhancerList[k].fn = fn /\ StoreEnhancerList[k].args = args
\* The preloaded state the store holds: the object it was given.
StorePreloadedState == initialState

StoreMadeFromRegistrations ==
    /\ _store' # Null
    /\ StoreReducers' = reducers
    /\ StoreHas("SideEffects.installSideEffects", effectors)'
    /\ \A i \in DOMAIN enhancers : StoreHas("enhancer", <<enhancers[i]>>)'
    /\ middleware # <<>> => StoreHas("Redux.applyMiddleware", middleware)'
    /\ _store'[1].preloadedState = [ref |-> "this.initialState"]

\* C10 as stated: the store is created once, at the first access, and from then
\* on nothing it was made from changes, the preloaded state included.
C10_StoreFrozenAtFirstAccess ==
    [][/\ call'.op \in {"store", "render"} => _store' # Null
       /\ _store' # _store => (_store = Null /\ call'.op \in {"store", "render"})
       /\ (_store = Null /\ _store' # Null) =>
             (StoreMadeFromRegistrations /\ StorePreloadedState' = initialState)
       /\ _store # Null => StorePreloadedState' = StorePreloadedState]_vars

\* C10 amended: the store is created once, at the first access, from copies of
\* the reducers, effectors, enhancers and middleware registered then and from the
\* host's initialState object itself; later accesses return it, and later
\* addReducer/addEffector/addEnhancer/addMiddleware calls do not change it.
C10_StoreCreatedOnce ==
    [][/\ call'.op \in {"store", "render"} => _store' # Null
       /\ call'.op = "store" => call'.value = _store'
       /\ call'.op = "render" => dom'[OrDefault(call'.args.rootId, DefaultRootId)][1].store = _store'[1]
       /\ _store' # _store => (_store = Null /\ call'.op \in {"store", "render"})
       /\ (_store = Null /\ _store' # Null) => StoreMadeFromRegistrations
       /\ _store # Null => _store' = _store]_vars

C10_Witness ==
    /\ call.op = "store"
    /\ call.value = _store
    /\ _store # Null
    /\ StoreReducers # reducers
    /\ dom["root"] # Null

====
